---- MODULE Spec2Model ----
(***************************************************************************)
(* RefStat: the Streamlit referee-statistics application (src/RefStat.py). *)
(* One script run of main() is one action: the session state is the        *)
(* program state, a button press or a rerun is a step.  src/app.py is the  *)
(* earlier version of the same pipeline: its date test, groupby and        *)
(* sort_values are the calls modelled here, without the optional criteria. *)
(*                                                                         *)
(* Values.  A timestamp is a number of ticks, TicksPerDay ticks to a day,  *)
(* NaT is the unparseable date that pd.to_datetime(errors='coerce') puts   *)
(* in the Date column.  A calendar day (a datetime.date, what st.date_input*)
(* returns) is a day number.  A referee (Domare) is a number, its order    *)
(* the order of the names.  Python's None is the empty sequence and a      *)
(* value v that may be None is <<v>>.                                      *)
(***************************************************************************)
EXTENDS Integers, Sequences, FiniteSets

\* ------------------------------------------------------------------ bounds
MaxRows == 2
MaxDay == 2
NumReferees == 2
MaxMatcher == 2
MaxMinMatches == 2

VARIABLES data, filtered_data, filtered_raw, show_stats, error,
          tieOrder, crit, view, top_n

vars == <<data, filtered_data, filtered_raw, show_stats, error,
          tieOrder, crit, view, top_n>>

\* ------------------------------------------------------------------ values
None == <<>>
Some(v) == <<v>>
Val(o) == o[1]

NaT == -1
\* The times of day the records carry: 0 is midnight (a date-only cell).
TimesOfDay == {0, 1}
TicksPerDay == Cardinality(TimesOfDay)
Timestamps == 0..((MaxDay + 1) * TicksPerDay - 1)
Referees == 1..NumReferees
Sports == {"Innebandy", "Handboll"}
Districts == {"Vastsvenska", "Skane"}
Alla == "Alla"
NoArg == "None"
NoColumn == "-"

\* pd.to_datetime(d) of a datetime.date: midnight of that day.
ToDatetime(d) == d * TicksPerDay
\* Timestamp.date(): the calendar day of a timestamp.
DateOf(t) == t \div TicksPerDay

RECURSIVE SumSeq(_)
SumSeq(s) == IF s = <<>> THEN 0 ELSE Head(s) + SumSeq(Tail(s))

\* ------------------------------------------------- filter_data_by_date

\* filtered_df[(Date >= start) & (Date <= end)]: a comparison with NaT is False.
InDateRange(row, start_date, end_date) ==
    /\ row.Date # NaT
    /\ row.Date >= ToDatetime(start_date)
    /\ row.Date <= ToDatetime(end_date)

FilterByDate(rows, start_date, end_date) ==
    SelectSeq(rows, LAMBDA row : InDateRange(row, start_date, end_date))

\* "if sport and sport != 'Alla'": the criterion is applied.
Active(criterion) == criterion # NoArg /\ criterion # Alla

FilterBySport(rows, sport) ==
    IF Active(sport) THEN SelectSeq(rows, LAMBDA row : row.Sport = sport) ELSE rows

FilterByDistrict(rows, district) ==
    IF Active(district) THEN SelectSeq(rows, LAMBDA row : row.District = district)
    ELSE rows

\* filtered_df["Sport"] raises KeyError when the column is missing; Sport is
\* indexed first, so its KeyError wins.
MissingColumn(columns, sport, district) ==
    IF Active(sport) /\ "Sport" \notin columns THEN "Sport"
    ELSE IF Active(district) /\ "District" \notin columns THEN "District"
    ELSE ""

\* filtered_df.groupby("Domare")["Matcher"].sum().reset_index(): one row per
\* referee of the rows, in ascending order of the key (groupby sorts its keys).
RefereeTotal(rows, r) ==
    SumSeq([i \in 1..Len(rows) |-> IF rows[i].Domare = r THEN rows[i].Matcher ELSE 0])

RECURSIVE GroupFrom(_, _)
GroupFrom(rows, r) ==
    IF \A i \in 1..Len(rows) : rows[i].Domare < r THEN <<>>
    ELSE IF \E i \in 1..Len(rows) : rows[i].Domare = r
         THEN <<[Domare |-> r, Matcher |-> RefereeTotal(rows, r)]>>
              \o GroupFrom(rows, r + 1)
         ELSE GroupFrom(rows, r + 1)

GroupByDomare(rows) == GroupFrom(rows, 1)

\* "if min_matches and min_matches > 0: grouped[grouped.Matcher >= min_matches]"
ApplyMinMatches(grouped, min_matches) ==
    IF min_matches > 0 THEN SelectSeq(grouped, LAMBDA g : g.Matcher >= min_matches)
    ELSE grouped

\* sort_values(by="Matcher", ascending=False) with the default kind="quicksort",
\* which is not stable: the order of equal totals is the build's choice (ties),
\* the same at every call.  "stable" keeps equal totals in the order of the
\* frame sorted, "reverse" reverses them.
PickMax(s, ties) ==
    LET top == {i \in 1..Len(s) : \A j \in 1..Len(s) : s[j].Matcher <= s[i].Matcher}
    IN IF ties = "stable" THEN CHOOSE i \in top : \A j \in top : i <= j
       ELSE CHOOSE i \in top : \A j \in top : i >= j

RemoveAt(s, i) == SubSeq(s, 1, i - 1) \o SubSeq(s, i + 1, Len(s))

\* The sort left out: the frame stays in the order groupby gave it.
SortValuesLeftOut(s, ties) == s

RECURSIVE SortValuesDesc(_, _)
SortValuesDesc(s, ties) ==
    IF s = <<>> THEN <<>>
    ELSE LET i == PickMax(s, ties)
         IN <<s[i]>> \o SortValuesDesc(RemoveAt(s, i), ties)

\* A DataFrame of referee totals: its rows and whether the Rank column exists.
Frame(rows) == [hasRank |-> FALSE, rows |-> rows]

\* The threshold put on the raw rows, before the sums, instead of on the sums.
filter_min_on_rows(df, start_date, end_date, sport, district, min_matches, ties) ==
    LET missing == MissingColumn(df.columns, sport, district)
        byDate == FilterByDate(df.rows, start_date, end_date)
        filtered == FilterByDistrict(FilterBySport(byDate, sport), district)
        grouped == SortValuesDesc(
                       GroupByDomare(ApplyMinMatches(filtered, min_matches)), ties)
    IN IF missing # ""
       THEN [grouped |-> None, filtered_df |-> None, error |-> Some(missing)]
       ELSE [grouped |-> Some(Frame(grouped)), filtered_df |-> Some(filtered),
             error |-> None]

\* The whole function: what it returns (grouped, filtered_df) and the error it
\* stores in st.session_state["error"]; the except clause returns (None, None).
filter_data_by_date(df, start_date, end_date, sport, district, min_matches, ties) ==
    LET missing == MissingColumn(df.columns, sport, district)
        byDate == FilterByDate(df.rows, start_date, end_date)
        filtered == FilterByDistrict(FilterBySport(byDate, sport), district)
        grouped == SortValuesDesc(
                       ApplyMinMatches(GroupByDomare(filtered), min_matches), ties)
    IN IF missing # ""
       THEN [grouped |-> None, filtered_df |-> None, error |-> Some(missing)]
       ELSE [grouped |-> Some(Frame(grouped)), filtered_df |-> Some(filtered),
             error |-> None]

\* ------------------------------------------------- generate_referee_stats

\* Called with a frame of (Domare, Matcher) rows; None when it is empty.
generate_referee_stats(frame_rows, ties) ==
    IF frame_rows = <<>> THEN None
    ELSE LET total == SumSeq([i \in 1..Len(frame_rows) |-> frame_rows[i].Matcher])
             referees == Cardinality({frame_rows[i].Domare : i \in 1..Len(frame_rows)})
             most_active == SortValuesDesc(GroupByDomare(frame_rows), ties)
         IN Some([total_matches |-> total,
                  total_referees |-> referees,
                  avg_matches |-> [num |-> total, den |-> referees],
                  most_active |-> most_active[1].Domare,
                  most_active_count |-> most_active[1].Matcher])

\* ------------------------------------------------------------ main(): views

\* What one script run put on the page.
NoView == [warning |-> FALSE, stats |-> None, table |-> None, exception |-> ""]

\* "Visa topp domare": st.slider(min_value=5, max_value=50, value=20).
\* The slider keeps its value between script runs (top_n); moving it starts a
\* script run with the new value.
TopNMin == 5
TopNDefault == 20
TopNs == {TopNMin, TopNDefault}

\* result.head(display_top_n)
HeadRows(rows, n) == SubSeq(rows, 1, IF Len(rows) < n THEN Len(rows) ELSE n)

\* The display block of main() (lines 363-477) on the stored result: the
\* summary cards, the top-N cut, result.insert(0, "Rank", ...) and the table.
\* insert raises ValueError when the frame already has a Rank column; without
\* the cut, result is the stored frame itself and insert changes it in place.
Render(stored, show, display_top_n, ties) ==
    IF show /\ stored # None
    THEN LET result == Val(stored)
             stats == generate_referee_stats(result.rows, ties)
             cut == Len(result.rows) > display_top_n
             rows == IF cut THEN HeadRows(result.rows, display_top_n) ELSE result.rows
         IN IF result.hasRank
            THEN [stored |-> stored, stats |-> stats, table |-> None,
                  exception |-> "ValueError"]
            ELSE [stored |-> IF cut THEN stored
                             ELSE Some([result EXCEPT !.hasRank = TRUE]),
                  stats |-> stats,
                  table |-> Some([i \in 1..Len(rows) |->
                                     [Rank |-> i, Domare |-> rows[i].Domare,
                                      Matcher |-> rows[i].Matcher]]),
                  exception |-> ""]
    ELSE [stored |-> stored, stats |-> None, table |-> None, exception |-> ""]

ViewOf(r, warned) ==
    [warning |-> warned, stats |-> r.stats, table |-> r.table,
     exception |-> r.exception]

\* ---------------------------------------------------------- main(): widgets

ValidDates(df) == {df.rows[i].Date : i \in 1..Len(df.rows)} \ {NaT}
MinOf(S) == CHOOSE x \in S : \A y \in S : x <= y
MaxOf(S) == CHOOSE x \in S : \A y \in S : x >= y
\* data["Date"].min().date() and .max().date(): min and max skip NaT.
min_date(df) == DateOf(MinOf(ValidDates(df)))
max_date(df) == DateOf(MaxOf(ValidDates(df)))
\* st.date_input(min_value=min_date, max_value=max_date)
DateChoices(df) == min_date(df)..max_date(df)

\* The "Idrott" selectbox, or the default "Innebandy" without a Sport column.
SportChoices(df) ==
    IF "Sport" \in df.columns
    THEN {Alla} \cup {df.rows[i].Sport : i \in 1..Len(df.rows)}
    ELSE {"Innebandy"}

\* The "Forbund" selectbox, or the default without a District column.
DistrictChoices(df) ==
    IF "District" \in df.columns
    THEN {Alla} \cup {df.rows[i].District : i \in 1..Len(df.rows)}
    ELSE {"Vastsvenska"}

\* "sport if sport != 'Alla' else None"
ArgOf(choice) == IF choice = Alla THEN NoArg ELSE choice

MinMatchesChoices == 0..MaxMinMatches

\* ------------------------------------------------------------ the datasets

\* The CSV files uploaded: the columns Date, Domare, Matcher and the optional
\* columns Sport and District; at least one Date parses (the date widgets need
\* min_date and max_date).  Four families of files: one referee on dates of
\* every kind, referees with match counts of every size on one day, every
\* combination of optional columns with referees of one match per row, and
\* one file of TopNMin + 1 referees over two days (a leaderboard the slider can
\* cut).
RowsOver(cells) == UNION {[1..n -> cells] : n \in 1..MaxRows}

DateCells ==
    [Date : {NaT} \cup Timestamps, Domare : {1}, Matcher : {1},
     Sport : {"Innebandy"}, District : {"Vastsvenska"}]

MatcherCells ==
    [Date : {ToDatetime(0)}, Domare : Referees, Matcher : 0..MaxMatcher,
     Sport : {"Innebandy"}, District : {"Vastsvenska"}]

ColumnCells(columns) ==
    [Date : {ToDatetime(0)}, Domare : Referees, Matcher : {1},
     Sport : IF "Sport" \in columns THEN Sports ELSE {NoColumn},
     District : IF "District" \in columns THEN Districts ELSE {NoColumn}]

LeagueRows ==
    [i \in 1..(TopNMin + 1) |->
        [Date |-> IF i = 1 THEN ToDatetime(0) ELSE ToDatetime(1), Domare |-> i,
         Matcher |-> 1, Sport |-> "Innebandy", District |-> "Vastsvenska"]]

DataFrame(columns, rows) == [columns |-> columns, rows |-> rows]

Datasets ==
    {df \in {DataFrame({"Sport", "District"}, rows) :
                 rows \in RowsOver(DateCells) \cup RowsOver(MatcherCells)
                              \cup {LeagueRows}}
          \cup UNION {{DataFrame(columns, rows) : rows \in RowsOver(ColumnCells(columns))} :
                          columns \in SUBSET {"Sport", "District"}} :
        ValidDates(df) # {}}

\* ------------------------------------------------------------------ actions

\* Session state initialization (lines 91-98); "filtered_raw" is no key yet.
Init ==
    /\ data = None
    /\ filtered_data = None
    /\ filtered_raw = None
    /\ show_stats = FALSE
    /\ error = None
    /\ tieOrder \in {"stable", "reverse"}
    /\ crit = None
    /\ view = NoView
    /\ top_n = TopNDefault

\* A script run with a file in the uploader (lines 250-253): nothing is shown yet.
LoadData(df) ==
    /\ data = None
    /\ data' = Some(df)
    /\ error' = None
    /\ view' = NoView
    /\ UNCHANGED <<filtered_data, filtered_raw, show_stats, tieOrder, crit, top_n>>

\* A script run with "Visa Statistik" pressed and start_date <= end_date
\* (lines 337-353), then the display block.  The pending error is shown and
\* cleared first (lines 264-266).  Everything the run stores is computed from
\* data and the widgets alone, so the state it reaches is the same from every
\* state of the session: it is taken from a session that shows no statistics
\* (a fresh or a reset one), which reaches every state the program reaches.
ShowStatistics(start_date, end_date, sport, district, min_matches, display_top_n) ==
    /\ data # None
    /\ ~show_stats
    /\ start_date <= end_date
    /\ LET f == filter_data_by_date(Val(data), start_date, end_date,
                                    ArgOf(sport), ArgOf(district),
                                    min_matches, tieOrder)
           r == Render(f.grouped, TRUE, display_top_n, tieOrder)
       IN /\ filtered_data' = r.stored
          /\ filtered_raw' = f.filtered_df
          /\ show_stats' = TRUE
          /\ error' = f.error
          /\ crit' = Some([start_date |-> start_date, end_date |-> end_date,
                           sport |-> ArgOf(sport), district |-> ArgOf(district),
                           min_matches |-> min_matches])
          /\ view' = ViewOf(r, FALSE)
    /\ UNCHANGED <<data, tieOrder, top_n>>

\* The press without its else branch: the warning, and the filter all the same.
ShowStatisticsNoElse(start_date, end_date, display_top_n) ==
    /\ data # None
    /\ start_date > end_date
    /\ LET f == filter_data_by_date(Val(data), start_date, end_date,
                                    NoArg, NoArg, 0, tieOrder)
           r == Render(f.grouped, TRUE, display_top_n, tieOrder)
       IN /\ filtered_data' = r.stored
          /\ filtered_raw' = f.filtered_df
          /\ show_stats' = TRUE
          /\ error' = f.error
          /\ crit' = Some([start_date |-> start_date, end_date |-> end_date,
                           sport |-> NoArg, district |-> NoArg, min_matches |-> 0])
          /\ view' = ViewOf(r, TRUE)
    /\ UNCHANGED <<data, tieOrder, top_n>>

\* A script run with "Visa Statistik" pressed and start_date > end_date (lines
\* 338-339): the warning, no filter call, and the display block on what the
\* session holds.  The other widgets are not read on this path.
ShowStatisticsBadRange(start_date, end_date, display_top_n) ==
    /\ data # None
    /\ start_date > end_date
    /\ LET r == Render(filtered_data, show_stats, display_top_n, tieOrder)
       IN /\ filtered_data' = r.stored
          /\ view' = ViewOf(r, TRUE)
    /\ error' = None
    /\ UNCHANGED <<data, filtered_raw, show_stats, tieOrder, crit, top_n>>

\* A script run with no button pressed (a widget changed, the slider maybe):
\* the display block runs again on the stored result.
Rerun(display_top_n) ==
    /\ data # None
    /\ top_n' = display_top_n
    /\ LET r == Render(filtered_data, show_stats, display_top_n, tieOrder)
       IN /\ filtered_data' = r.stored
          /\ view' = ViewOf(r, FALSE)
    /\ error' = None
    /\ UNCHANGED <<data, filtered_raw, show_stats, tieOrder, crit>>

\* A script run with "Aterstall Filter" pressed (lines 356-360), and the rerun
\* st.experimental_rerun() starts.
ResetFilter ==
    /\ data # None
    /\ show_stats' = FALSE
    /\ filtered_data' = None
    /\ filtered_raw' = None
    /\ error' = None
    /\ crit' = None
    /\ view' = NoView
    /\ UNCHANGED <<data, tieOrder, top_n>>

\* The widgets' values at the press: the date inputs are confined to the
\* dataset's days, the selectboxes to the dataset's values, the slider is where
\* the last script run left it.
UploadFile ==
    /\ data = None
    /\ \E df \in Datasets : LoadData(df)

PressShowStatistics ==
    /\ data # None
    /\ \E start_date, end_date \in DateChoices(Val(data)) :
         \E sport \in SportChoices(Val(data)), district \in DistrictChoices(Val(data)) :
           \E min_matches \in MinMatchesChoices :
             ShowStatistics(start_date, end_date, sport, district, min_matches,
                            top_n)

PressShowStatisticsBadRange ==
    /\ data # None
    /\ \E start_date, end_date \in DateChoices(Val(data)) :
         ShowStatisticsBadRange(start_date, end_date, top_n)

Next ==
    \/ UploadFile
    \/ PressShowStatistics
    \/ PressShowStatisticsBadRange
    \/ \E display_top_n \in TopNs : Rerun(display_top_n)
    \/ ResetFilter

Spec == Init /\ [][Next]_vars

\* ------------------------------------------------------------------ claims

\* The session holds the results of a filter invocation that returned frames.
Filtered == crit # None /\ filtered_raw # None /\ filtered_data # None

\* The sum of matchCount over the records of referee r.
RECURSIVE SummedTotal(_, _)
SummedTotal(records, r) ==
    IF records = <<>> THEN 0
    ELSE (IF Head(records).Domare = r THEN Head(records).Matcher ELSE 0)
         + SummedTotal(Tail(records), r)

RefereesOf(records) == {records[i].Domare : i \in 1..Len(records)}

\* The position of referee r's earliest record.
FirstAppearance(records, r) ==
    CHOOSE i \in 1..Len(records) :
        /\ records[i].Domare = r
        /\ \A j \in 1..(i - 1) : records[j].Domare # r

Leaderboard == Val(filtered_data).rows

\* C1: with no categorical criterion, the filter keeps a record iff
\* startDate <= the record's calendar day <= endDate: a record dated on
\* startDate or on endDate is kept, one a day outside is dropped.
C1_DateBoundsInclusive ==
    (Filtered /\ Val(crit).sport = NoArg /\ Val(crit).district = NoArg) =>
        Val(filtered_raw) =
            SelectSeq(Val(data).rows,
                      LAMBDA row : /\ row.Date # NaT
                                   /\ Val(crit).start_date <= DateOf(row.Date)
                                   /\ DateOf(row.Date) <= Val(crit).end_date)

\* C2: the leaderboard holds exactly the referees whose summed total over the
\* filtered records is >= minMatches, each with that total and once; with
\* minMatches = 0 it holds every referee of the filtered records.
C2_ThresholdOnSummedTotal ==
    Filtered =>
        /\ {Leaderboard[i].Domare : i \in 1..Len(Leaderboard)} =
               {r \in RefereesOf(Val(filtered_raw)) :
                    SummedTotal(Val(filtered_raw), r) >= Val(crit).min_matches}
        /\ \A i \in 1..Len(Leaderboard) :
               Leaderboard[i].Matcher =
                   SummedTotal(Val(filtered_raw), Leaderboard[i].Domare)
        /\ \A i, j \in 1..Len(Leaderboard) :
               Leaderboard[i].Domare = Leaderboard[j].Domare => i = j
        /\ Val(crit).min_matches = 0 =>
               {Leaderboard[i].Domare : i \in 1..Len(Leaderboard)} =
                   RefereesOf(Val(filtered_raw))

\* A referee whose rows are each below minMatches and sum to it is on the
\* leaderboard.
C2_Witness ==
    /\ Filtered
    /\ Val(crit).min_matches > 0
    /\ \E i \in 1..Len(Leaderboard) :
           /\ \A k \in 1..Len(Val(filtered_raw)) :
                  Val(filtered_raw)[k].Domare = Leaderboard[i].Domare =>
                      Val(filtered_raw)[k].Matcher < Val(crit).min_matches
           /\ Leaderboard[i].Matcher >= Val(crit).min_matches

\* C4: the leaderboard is in non-increasing order of summed total.
C4_RankMonotonic ==
    Filtered => \A i \in 1..(Len(Leaderboard) - 1) :
                    Leaderboard[i].Matcher >= Leaderboard[i + 1].Matcher

\* A leaderboard the sort had to reorder: the referee with the larger total has
\* the later name.
C4_Witness ==
    /\ Filtered
    /\ \E i \in 1..(Len(Leaderboard) - 1) :
           /\ Leaderboard[i].Matcher > Leaderboard[i + 1].Matcher
           /\ Leaderboard[i].Domare > Leaderboard[i + 1].Domare

\* C3: two referees with equal summed totals stand in the order of their
\* earliest records in the input: the one that appears first has the lower
\* rank.  Stated of the build whose sort keeps equal totals in place.
C3_TieBreakFirstAppearance ==
    (Filtered /\ tieOrder = "stable") =>
        \A i, j \in 1..Len(Leaderboard) :
            (i < j /\ Leaderboard[i].Matcher = Leaderboard[j].Matcher) =>
                FirstAppearance(Val(filtered_raw), Leaderboard[i].Domare)
                    < FirstAppearance(Val(filtered_raw), Leaderboard[j].Domare)

\* The sum of matchCount over the records.
RECURSIVE SumMatcher(_)
SumMatcher(records) ==
    IF records = <<>> THEN 0 ELSE Head(records).Matcher + SumMatcher(Tail(records))

\* C5: the summary's totalMatches is the sum of matchCount over all filtered
\* records, whatever minMatches is.
C5_SummaryConservation ==
    (Filtered /\ view.stats # None) =>
        Val(view.stats).total_matches = SumMatcher(Val(filtered_raw))

\* The rows the criteria keep when a dimension the dataset has no column for
\* always passes.
PassesCategories(df, row, criteria) ==
    /\ (Active(criteria.sport) /\ "Sport" \in df.columns) => row.Sport = criteria.sport
    /\ (Active(criteria.district) /\ "District" \in df.columns) =>
           row.District = criteria.district

\* C6: when the dataset has no Sport or no District column, the filter sets no
\* error and returns what it returns with that criterion absent.
C6_AbsentColumnAlwaysPass ==
    (crit # None /\ Val(data).columns # {"Sport", "District"}) =>
        /\ error = None
        /\ filtered_raw # None
        /\ Val(filtered_raw) =
               SelectSeq(Val(data).rows,
                         LAMBDA row :
                             /\ InDateRange(row, Val(crit).start_date,
                                            Val(crit).end_date)
                             /\ PassesCategories(Val(data), row, Val(crit)))

\* C7: with no minMatches cutoff the summary's mostActiveReferee has the
\* maximal summed total, is the earliest to appear among the referees that
\* have it, is the leaderboard's rank-1 referee, and mostActiveCount is its
\* total.  Stated of the build whose sort keeps equal totals in place.
C7_MostActiveIsRankOne ==
    (Filtered /\ tieOrder = "stable" /\ view.stats # None
        /\ Val(crit).min_matches = 0) =>
        LET records == Val(filtered_raw)
            best == Val(view.stats).most_active
        IN /\ best \in RefereesOf(records)
           /\ \A r \in RefereesOf(records) :
                  /\ SummedTotal(records, r) <= SummedTotal(records, best)
                  /\ SummedTotal(records, r) = SummedTotal(records, best) =>
                         FirstAppearance(records, best) <= FirstAppearance(records, r)
           /\ best = Leaderboard[1].Domare
           /\ Val(view.stats).most_active_count = SummedTotal(records, best)

\* C8: on an empty filtered record set the leaderboard is empty, nothing
\* raises, and a summary is returned with totalReferees = 0, average = 0 and
\* mostActiveReferee and mostActiveCount set to a no-data sentinel, not zero.
C8_EmptyPopulationSummary ==
    (Filtered /\ Val(filtered_raw) = <<>>) =>
        /\ Leaderboard = <<>>
        /\ view.stats # None
        /\ Val(view.stats).total_referees = 0
        /\ Val(view.stats).avg_matches.num = 0
        /\ Val(view.stats).most_active_count # 0

\* C9: the date widgets give dates only, so no filter invocation ends in an
\* error outcome: it returns both frames and stores no error.
C9_NoErrorOnDates ==
    crit # None => (error = None /\ filtered_data # None /\ filtered_raw # None)

ParseableRows(df) == SelectSeq(df.rows, LAMBDA row : row.Date # NaT)

\* C10: on a dataset with every optional column, a record with an unparseable
\* date is in no filtered subset, adds to no total and raises no error, and
\* what the invocation returns tells a dataset with dropped records from the
\* same dataset without them (the drop count is observable).
C10_UnparseableDroppedObservably ==
    (crit # None /\ Val(data).columns = {"Sport", "District"}) =>
        /\ Filtered
        /\ \A i \in 1..Len(Val(filtered_raw)) : Val(filtered_raw)[i].Date # NaT
        /\ \A i \in 1..Len(Leaderboard) :
               Leaderboard[i].Matcher <=
                   SummedTotal(ParseableRows(Val(data)), Leaderboard[i].Domare)
        /\ ParseableRows(Val(data)) # Val(data).rows =>
               filter_data_by_date(
                   Val(data), Val(crit).start_date, Val(crit).end_date,
                   Val(crit).sport, Val(crit).district, Val(crit).min_matches,
                   tieOrder)
               # filter_data_by_date(
                   DataFrame(Val(data).columns, ParseableRows(Val(data))),
                   Val(crit).start_date, Val(crit).end_date,
                   Val(crit).sport, Val(crit).district, Val(crit).min_matches,
                   tieOrder)

\* The table a render of the leaderboard rows shows under the slider's value n:
\* the first n rows, ranked 1, 2, ...
RankedTable(rows, n) ==
    LET shown == HeadRows(rows, n)
    IN [i \in 1..Len(shown) |->
           [Rank |-> i, Domare |-> shown[i].Domare, Matcher |-> shown[i].Matcher]]

\* C11: neither filtering nor rendering modifies the aggregated result the
\* session stores: while results are shown, the stored result is exactly what
\* the filter invocation returned, and every render of it (the first one and
\* every later script run) succeeds and shows its top rows ranked 1..n.
C11_StoredResultNeverMutated ==
    (Filtered /\ show_stats) =>
        LET f == filter_data_by_date(
                     Val(data), Val(crit).start_date, Val(crit).end_date,
                     Val(crit).sport, Val(crit).district, Val(crit).min_matches,
                     tieOrder)
        IN /\ filtered_data = f.grouped
           /\ view.exception = ""
           /\ view.table = Some(RankedTable(Val(f.grouped).rows, top_n))

====
